---- MODULE Spec2Model ----
(***************************************************************************)
(* StatPulse health check (scripts/check-health.js) as a state machine.    *)
(*                                                                         *)
(* One run of the script is a process p: it probes the three endpoints of  *)
(* ENDPOINTS one after the other (checkEndpoint), reads the persisted log  *)
(* (readLog), annotates every result with detectAnomaly against that log,  *)
(* appends the results, writes the trimmed log back (writeLog) and exits.  *)
(*                                                                         *)
(* Representation of JavaScript values:                                    *)
(*   - a nullable number holds the number or  null  (the sentinel below);  *)
(*   - a nullable string holds the string or  nullStr;                     *)
(*   - an object is a record; a property that is absent in JavaScript is   *)
(*     absent from the record (so {detected:false} is [detected |-> FALSE])*)
(*   - the JSON value null as an array element is  JsonNull;               *)
(*   - a number with two decimals (toFixed(2)) is kept in hundredths.      *)
(*   - the log file is kept as what its text denotes: file.entries is the  *)
(*     array JSON.parse yields for the text the file holds.                *)
(***************************************************************************)
EXTENDS Integers, Sequences, FiniteSets, TLC

\* ------------------------------------------------------------------------
\* Bounds of the model
\* ------------------------------------------------------------------------

\* Number of runs of the script in one behaviour.
MaxRuns == 2

\* ------------------------------------------------------------------------
\* Named constants of the script
\* ------------------------------------------------------------------------

MAX_LOG_ENTRIES == 200
TIMEOUT_MS == 15000
ANOMALY_WINDOW == 10
ANOMALY_MIN_SAMPLES == 5
ANOMALY_WARNING_FACTOR == 2
ANOMALY_CRITICAL_FACTOR == 3

\* JavaScript null in a numeric field (status: null, responseTimeMs: null).
null == -1
\* JavaScript null in a string field (error: null).
nullStr == "null"
\* JSON null as an element of the parsed array.
JsonNull == [null |-> TRUE]

IsNullElem(r) == DOMAIN r = {"null"}

\* ------------------------------------------------------------------------
\* Generic helpers
\* ------------------------------------------------------------------------

Min(a, b) == IF a < b THEN a ELSE b

Max(a, b) == IF a > b THEN a ELSE b

\* Array.prototype.slice(-n): the last n elements (all of them when fewer).
SliceLast(s, n) == SubSeq(s, Len(s) - Min(Len(s), n) + 1, Len(s))

RECURSIVE SumSeq(_)
SumSeq(s) == IF s = <<>> THEN 0 ELSE Head(s) + SumSeq(Tail(s))

\* Math.round(a / b) for a >= 0, b > 0: nearest integer, halves upward.
RoundDiv(a, b) == (2 * a + b) \div (2 * b)

\* (a / b).toFixed(2), in hundredths, for a >= 0, b > 0.
ToFixed2(a, b) == RoundDiv(100 * a, b)

\* ------------------------------------------------------------------------
\* Endpoint definitions
\* ------------------------------------------------------------------------

\* Response bodies are sequences of tokens; a token stands for a piece of
\* text of a known byte length.  "chunk" is 1 KiB of text that matches
\* neither /DataStructure/ nor /Codelist/.
TokenBytes(t) ==
  CASE t = "DataStructure" -> 13
    [] t = "Codelist" -> 8
    [] t = "chunk" -> 1024
    [] OTHER -> 1

\* Buffer.byteLength(body, 'utf8')
ByteLength(body) == SumSeq([k \in 1..Len(body) |-> TokenBytes(body[k])])

\* (body.match(re) || []).length for the literal patterns of ENDPOINTS
MatchCount(body, word) == Cardinality({k \in 1..Len(body) : body[k] = word})

ExtraMetricStructures(body) ==
  [label |-> "DataStructure count", value |-> MatchCount(body, "DataStructure")]

ExtraMetricDataQuery(body) ==
  [label |-> "Response size KB", value |-> ToFixed2(ByteLength(body), 1024)]

ExtraMetricCodelists(body) ==
  [label |-> "Codelist count", value |-> MatchCount(body, "Codelist")]

ENDPOINTS ==
  << [name |-> "Structures",
      url |-> "https://nsi-demo-stable.siscc.org/rest/datastructure/all/all/all?detail=allstubs"],
     [name |-> "Data Query",
      url |-> "https://nsi-demo-stable.siscc.org/rest/data/OECD.CFE,INBOUND@TOURISM_TRIPS,2.0"],
     [name |-> "Codelists",
      url |-> "https://nsi-demo-stable.siscc.org/rest/codelist/all/all/latest?detail=allstubs"] >>

\* endpoint.extraMetric(body)
ExtraMetric(name, body) ==
  CASE name = "Structures" -> ExtraMetricStructures(body)
    [] name = "Data Query" -> ExtraMetricDataQuery(body)
    [] name = "Codelists" -> ExtraMetricCodelists(body)

NumEndpoints == Len(ENDPOINTS)

\* ------------------------------------------------------------------------
\* Anomaly detection
\* ------------------------------------------------------------------------

\* A filter that takes the entries of every endpoint.
QualifyingAnyEndpoint(endpointName, historicalLog) ==
  SelectSeq(historicalLog, LAMBDA r : r.responseTimeMs # null)

\* A filter that also demands r.ok of a sample.
QualifyingOkOnly(endpointName, historicalLog) ==
  SelectSeq(historicalLog,
            LAMBDA r : r.endpoint = endpointName /\ r.ok /\ r.responseTimeMs # null)

\* Faulty variant of Qualifying: the filter keeps the entries with a null
\* responseTimeMs.
QualifyingByNameOnly(endpointName, historicalLog) ==
  SelectSeq(historicalLog, LAMBDA r : r.endpoint = endpointName)

\* historicalLog.filter(r => r.endpoint === endpointName &&
\*                           r.responseTimeMs !== null)
Qualifying(endpointName, historicalLog) ==
  SelectSeq(historicalLog,
            LAMBDA r : r.endpoint = endpointName /\ r.responseTimeMs # null)

\* A history that is not cut to the window: every qualifying entry.
HistoryWholeLog(endpointName, historicalLog) ==
  Qualifying(endpointName, historicalLog)

\* ... .slice(-ANOMALY_WINDOW)
History(endpointName, historicalLog) ==
  SliceLast(Qualifying(endpointName, historicalLog), ANOMALY_WINDOW)

\* Faulty variant of EnoughSamples: one sample fewer is accepted.
EnoughSamplesOffByOne(history) == Len(history) >= ANOMALY_MIN_SAMPLES - 1

\* history.length < ANOMALY_MIN_SAMPLES is the early return
EnoughSamples(history) == Len(history) >= ANOMALY_MIN_SAMPLES

\* history.reduce((sum, r) => sum + r.responseTimeMs, 0); null + n is n.
SumResponseTimes(history) ==
  SumSeq([k \in 1..Len(history) |->
            IF history[k].responseTimeMs = null THEN 0
            ELSE history[k].responseTimeMs])

\* Math.round(sum / history.length)
RollingAvg(history) == RoundDiv(SumResponseTimes(history), Len(history))

\* parseFloat((currentMs / rollingAvgMs).toFixed(2)), in hundredths
DeviationFactor(currentMs, rollingAvgMs) == ToFixed2(currentMs, rollingAvgMs)

\* A verdict that always reports the baseline and the factor.
ClassifyAlwaysDetailed(rollingAvgMs, deviationFactor) ==
  [detected |-> deviationFactor >= ANOMALY_WARNING_FACTOR * 100,
   rollingAvgMs |-> rollingAvgMs,
   deviationFactor |-> deviationFactor,
   severity |-> IF deviationFactor >= ANOMALY_CRITICAL_FACTOR * 100
                THEN "critical" ELSE "warning"]

\* Faulty variant of Classify: the thresholds are compared with > for >=.
ClassifyStrictly(rollingAvgMs, deviationFactor) ==
  IF deviationFactor > ANOMALY_CRITICAL_FACTOR * 100
  THEN [detected |-> TRUE, rollingAvgMs |-> rollingAvgMs,
        deviationFactor |-> deviationFactor, severity |-> "critical"]
  ELSE IF deviationFactor > ANOMALY_WARNING_FACTOR * 100
  THEN [detected |-> TRUE, rollingAvgMs |-> rollingAvgMs,
        deviationFactor |-> deviationFactor, severity |-> "warning"]
  ELSE [detected |-> FALSE]

\* The two threshold tests on deviationFactor (in hundredths).
Classify(rollingAvgMs, deviationFactor) ==
  IF deviationFactor >= ANOMALY_CRITICAL_FACTOR * 100
  THEN [detected |-> TRUE, rollingAvgMs |-> rollingAvgMs,
        deviationFactor |-> deviationFactor, severity |-> "critical"]
  ELSE IF deviationFactor >= ANOMALY_WARNING_FACTOR * 100
  THEN [detected |-> TRUE, rollingAvgMs |-> rollingAvgMs,
        deviationFactor |-> deviationFactor, severity |-> "warning"]
  ELSE [detected |-> FALSE]

\* The filter callback reads r.endpoint of every element: a null element
\* raises TypeError.
TypeError == [threw |-> "TypeError"]

Threw(v) == "threw" \in DOMAIN v

\* detectAnomaly without the test for a zero average: the division yields
\* Infinity (here 2^30) for a positive current time, NaN for 0 ms, and NaN
\* compares false with both thresholds.
DetectAnomalyUnguarded(endpointName, currentMs, historicalLog) ==
  IF currentMs = null THEN [detected |-> FALSE]
  ELSE IF \E k \in 1..Len(historicalLog) : IsNullElem(historicalLog[k])
  THEN TypeError
  ELSE LET history == History(endpointName, historicalLog) IN
    IF ~EnoughSamples(history) THEN [detected |-> FALSE]
    ELSE LET rollingAvgMs == RollingAvg(history) IN
      IF rollingAvgMs = 0
      THEN IF currentMs = 0 THEN [detected |-> FALSE]
           ELSE Classify(rollingAvgMs, 2^30)
      ELSE Classify(rollingAvgMs, DeviationFactor(currentMs, rollingAvgMs))

DetectAnomaly(endpointName, currentMs, historicalLog) ==
  IF currentMs = null THEN [detected |-> FALSE]
  ELSE IF \E k \in 1..Len(historicalLog) : IsNullElem(historicalLog[k])
  THEN TypeError
  ELSE LET history == History(endpointName, historicalLog) IN
    IF ~EnoughSamples(history) THEN [detected |-> FALSE]
    ELSE LET rollingAvgMs == RollingAvg(history) IN
      IF rollingAvgMs = 0 THEN [detected |-> FALSE]
      ELSE Classify(rollingAvgMs, DeviationFactor(currentMs, rollingAvgMs))

\* ------------------------------------------------------------------------
\* Response headers: Content-Type values are sequences of characters
\* ------------------------------------------------------------------------

UpperCaseLetters ==
  <<"A","B","C","D","E","F","G","H","I","J","K","L","M",
    "N","O","P","Q","R","S","T","U","V","W","X","Y","Z">>

LowerCaseLetters ==
  <<"a","b","c","d","e","f","g","h","i","j","k","l","m",
    "n","o","p","q","r","s","t","u","v","w","x","y","z">>

LowerChar(c) ==
  IF \E k \in 1..26 : UpperCaseLetters[k] = c
  THEN LowerCaseLetters[CHOOSE k \in 1..26 : UpperCaseLetters[k] = c]
  ELSE c

\* pattern occurs in text, ignoring case (the /i flag)
ContainsIgnoreCase(text, pattern) ==
  \E k \in 0..(Len(text) - Len(pattern)) :
    \A j \in 1..Len(pattern) : LowerChar(text[k + j]) = pattern[j]

\* /xml|sdmx/i.test(contentType)
ContentTypeValid(contentType) ==
  \/ ContainsIgnoreCase(contentType, <<"x","m","l">>)
  \/ ContainsIgnoreCase(contentType, <<"s","d","m","x">>)

\* response.ok taken for "the server did not fail": any status below 500.
ResponseOkBelow500(status) == status >= 200 /\ status <= 499

\* response.ok
ResponseOk(status) == status >= 200 /\ status <= 299

\* ------------------------------------------------------------------------
\* Inputs: what the server of an endpoint does with one request
\* ------------------------------------------------------------------------

ApplicationXml == <<"a","p","p","l","i","c","a","t","i","o","n","/","x","m","l">>
SdmxJson ==
  <<"a","p","p","l","i","c","a","t","i","o","n","/","v","n","d",".",
    "S","D","M","X",".","d","a","t","a","+","j","s","o","n">>
TextHtml == <<"t","e","x","t","/","h","t","m","l">>

StructuresBody == <<"DataStructure", "chunk", "DataStructure", "x">>
DataBody == <<"chunk", "chunk", "x", "x", "x">>
CodelistsBody == <<"Codelist", "Codelist", "Codelist">>
ErrorPage == <<"x", "x">>

\* The whole response arrives: headers after ms, the body bodyMs later.
Responds(status, contentType, ms, body) ==
  [kind |-> "response", status |-> status, contentType |-> contentType,
   ms |-> ms, body |-> body, bodyMs |-> 5]

\* The headers arrive after ms, then the body stream fails.
Resets(status, contentType, ms) ==
  [kind |-> "reset", status |-> status, contentType |-> contentType,
   ms |-> ms, bodyMs |-> 50, message |-> "terminated"]

\* The headers arrive after ms, then the body never ends: the server keeps
\* the stream open and sends a byte now and then.
Stalls(status, contentType, ms) ==
  [kind |-> "stall", status |-> status, contentType |-> contentType, ms |-> ms]

\* No response within TIMEOUT_MS.
Silent == [kind |-> "silent"]

\* The connection fails after ms (DNS, connection refused, TLS).
Refuses(ms) == [kind |-> "refused", ms |-> ms, message |-> "fetch failed"]

\* What the server of an endpoint normally does.
Nominal(name) ==
  CASE name = "Structures" -> Responds(200, ApplicationXml, 100, StructuresBody)
    [] name = "Data Query" -> Responds(200, SdmxJson, 100, DataBody)
    [] name = "Codelists" -> Responds(200, ApplicationXml, 100, CodelistsBody)

\* The ways one server (that of Structures) can deviate, one request at a time.
Deviations ==
  { Responds(200, ApplicationXml, 300, StructuresBody),
    Responds(200, ApplicationXml, 350, StructuresBody),
    Responds(503, TextHtml, 100, ErrorPage),
    Resets(200, ApplicationXml, 100),
    Stalls(200, ApplicationXml, 100),
    Refuses(30),
    Silent }

\* The way each server is down during an outage.
Down(name) ==
  CASE name = "Structures" -> Silent
    [] name = "Data Query" -> Refuses(30)
    [] name = "Codelists" -> Silent

\* What a gateway in front of a server answers in its place: for Structures
\* its own page with status 200 or an SDMX error with status 404, for Data
\* Query the data without a content-type header.
Gateway(name) ==
  CASE name = "Structures" ->
         { Responds(200, TextHtml, 100, ErrorPage),
           Responds(404, ApplicationXml, 100, ErrorPage) }
    [] name = "Data Query" -> { Responds(200, <<>>, 100, DataBody) }
    [] name = "Codelists" -> {}

\* The families of behaviours explored: one server deviating in any way
\* while the others are nominal, any subset of the servers down, every
\* server nominal, or a gateway answering for some servers.
Networks == {"one unstable", "outages", "steady", "gateway"}

ServerBehavioursIn(net, name) ==
  IF net = "outages" THEN {Nominal(name), Down(name)}
  ELSE IF net = "gateway" THEN {Nominal(name)} \cup Gateway(name)
  ELSE IF net = "one unstable" /\ name = "Structures"
  THEN {Nominal(name)} \cup Deviations
  ELSE {Nominal(name)}

\* ------------------------------------------------------------------------
\* Inputs: what the log file holds before the first run
\* ------------------------------------------------------------------------

\* An entry as an earlier run would have recorded it for a received response.
Recorded(name, timestamp, status, responseTimeMs) ==
  [endpoint |-> name,
   url |-> (CHOOSE e \in {ENDPOINTS[k] : k \in 1..NumEndpoints} : e.name = name).url,
   timestamp |-> timestamp,
   status |-> status,
   ok |-> ResponseOk(status),
   responseTimeMs |-> responseTimeMs,
   contentTypeValid |-> ResponseOk(status),
   responseSizeKB |-> 1,
   extraMetric |-> ExtraMetric(name, <<>>),
   anomaly |-> [detected |-> FALSE],
   error |-> nullStr]

\* An entry of the documented shape for a failed request: responseTimeMs null.
RecordedFailure(name, timestamp) ==
  [endpoint |-> name,
   url |-> (CHOOSE e \in {ENDPOINTS[k] : k \in 1..NumEndpoints} : e.name = name).url,
   timestamp |-> timestamp,
   status |-> null,
   ok |-> FALSE,
   responseTimeMs |-> null,
   contentTypeValid |-> FALSE,
   responseSizeKB |-> null,
   extraMetric |-> [label |-> ExtraMetric(name, <<>>).label, value |-> null],
   anomaly |-> [detected |-> FALSE],
   error |-> "fetch failed"]

\* The entries of one endpoint, all answered with the given status in the
\* given response times (null: a failed request), timestamps from t+1 on.
EntriesOf(name, status, times, t) ==
  [k \in 1..Len(times) |->
     IF times[k] = null THEN RecordedFailure(name, t + k)
     ELSE Recorded(name, t + k, status, times[k])]

\* n full rounds of the three endpoints, every response in 100 ms.
Rounds(n) ==
  [k \in 1..(NumEndpoints * n) |->
     Recorded(ENDPOINTS[((k - 1) % NumEndpoints) + 1].name, k, 200, 100)]

\* Logs that give the Structures endpoint a baseline: too few samples,
\* enough samples, samples with null times among them, samples of 0 ms, slow
\* samples that fall out of the window, samples of failed responses.
BaselineArrays ==
  { <<>>,
    EntriesOf("Structures", 200, <<100, 100, 100, 100>>, 0),
    Rounds(5),
    EntriesOf("Structures", 200, <<80, 120, 100, 100, 100, 100, 100, 100, 100>>, 0),
    EntriesOf("Structures", 200, <<100, null, 100, null, 100, 100>>, 0),
    EntriesOf("Structures", 200,
              <<300, 300, 300, 100, null, 100, null, 100, null, 100, null, 100, null>>, 0),
    EntriesOf("Structures", 200, <<0, 0, 1, 0, 0, 0>>, 0),
    EntriesOf("Structures", 200,
              <<1000, 1000, 1000, 100, 100, 100, 100, 100, 100, 100, 100, 100, 100>>, 0),
    EntriesOf("Structures", 503, <<100, 100, 100, 100, 100>>, 0) }

\* Logs at the cap: two entries below it, and four above it (a file that was
\* not written by the script).
LongArrays == { SubSeq(Rounds(67), 1, MAX_LOG_ENTRIES - 2), Rounds(68) }

\* Arrays with a null element.
NullArrays == { <<JsonNull>>, Rounds(2) \o <<JsonNull>> }

InitialArrays == BaselineArrays \cup LongArrays \cup NullArrays

ArrayFile(a) == [kind |-> "array", entries |-> a]

\* A file that is absent (ENOENT), unreadable (EACCES), not JSON (invalid) or
\* JSON that is not an array (nonarray).
NoArrayFile(k) == [kind |-> k, entries |-> <<>>]

InitialFiles ==
  { ArrayFile(a) : a \in InitialArrays }
  \cup { NoArrayFile(k) : k \in {"ENOENT", "EACCES", "invalid", "nonarray"} }

\* The files each family of behaviours starts from; together they are
\* InitialFiles.
InitialFilesIn(net) ==
  CASE net = "one unstable" -> { ArrayFile(a) : a \in BaselineArrays }
    [] net = "outages" ->
         { ArrayFile(<<>>), ArrayFile(Rounds(5)), ArrayFile(<<JsonNull>>),
           NoArrayFile("ENOENT"), NoArrayFile("invalid") }
    [] net = "steady" ->
         { ArrayFile(a) : a \in LongArrays }
         \cup { ArrayFile(Rounds(2) \o <<JsonNull>>),
                NoArrayFile("EACCES"), NoArrayFile("nonarray") }
    [] net = "gateway" -> { ArrayFile(<<>>) }

\* ------------------------------------------------------------------------
\* State
\* ------------------------------------------------------------------------

VARIABLES
  network,    \* which family of server behaviours this behaviour draws from
  file,       \* data/health-log.json: [kind, entries]
  now,        \* the clock, in milliseconds (Date.now())
  pc,         \* where each run is in main / checkEndpoint
  i,          \* index in ENDPOINTS of the endpoint the for loop of main is at
  req,        \* locals of the checkEndpoint call in progress
  timers,     \* per run, for each checkEndpoint call so far: its timeout
              \* timer and how often its controller was aborted
  results,    \* main's results array
  log,        \* main's log array (what readLog returned, then the appended log)
  readKind,   \* what readLog found on disk ("none" before it ran)
  unhandled,  \* the error main() rejected with ("none" if it has not)
  exitCode,   \* the process exit code (null while the process runs)
  reported,   \* what main().catch wrote with logError ("none" if nothing)
  diskFaulted, \* a write of the log file has failed in this behaviour
  fileOps,    \* per run, the calls made on the log file so far, in order
  journal     \* the calls all runs made on the log file so far, in order

vars ==
  <<network, file, now, pc, i, req, timers, results, log, readKind, unhandled,
    exitCode, reported, diskFaulted, fileOps, journal>>

Procs == 1..MaxRuns

NoRequest == [none |-> TRUE]

Init ==
  /\ network \in Networks
  /\ file \in InitialFilesIn(network)
  /\ now = NumEndpoints * MAX_LOG_ENTRIES
  /\ pc = [p \in Procs |-> "idle"]
  /\ i = [p \in Procs |-> 1]
  /\ req = [p \in Procs |-> NoRequest]
  /\ timers = [p \in Procs |-> <<>>]
  /\ results = [p \in Procs |-> <<>>]
  /\ log = [p \in Procs |-> <<>>]
  /\ readKind = [p \in Procs |-> "none"]
  /\ unhandled = [p \in Procs |-> "none"]
  /\ exitCode = [p \in Procs |-> null]
  /\ reported = [p \in Procs |-> "none"]
  /\ diskFaulted = FALSE
  /\ fileOps = [p \in Procs |-> <<>>]
  /\ journal = <<>>

\* ------------------------------------------------------------------------
\* main: start
\* ------------------------------------------------------------------------

\* Runs are separate invocations of the script; here one starts when the
\* previous one has exited.
StartRun(p) ==
  /\ pc[p] = "idle"
  /\ \A q \in 1..(p - 1) : pc[q] = "exited"
  /\ pc' = [pc EXCEPT ![p] = "loop"]
  /\ results' = [results EXCEPT ![p] = <<>>]
  /\ i' = [i EXCEPT ![p] = 1]
  /\ UNCHANGED <<network, file, now, req, timers, log, readKind, unhandled, exitCode, reported, diskFaulted, fileOps, journal>>

\* ------------------------------------------------------------------------
\* checkEndpoint
\* ------------------------------------------------------------------------

\* The initial value of the local  result.
InitialResult(endpoint, timestamp) ==
  [endpoint |-> endpoint.name,
   url |-> endpoint.url,
   timestamp |-> timestamp,
   status |-> null,
   ok |-> FALSE,
   responseTimeMs |-> null,
   contentTypeValid |-> FALSE,
   responseSizeKB |-> null,
   extraMetric |-> [label |-> ExtraMetric(endpoint.name, <<>>).label, value |-> null],
   anomaly |-> [detected |-> FALSE],
   error |-> nullStr]

\* Faulty variant of CheckEndpointStart: the next probe is started without
\* awaiting the one in flight.
CheckEndpointStartUnawaited(p) ==
  /\ pc[p] \in {"loop", "fetch", "text"}
  /\ Len(timers[p]) < NumEndpoints
  /\ \E server \in ServerBehavioursIn(network, ENDPOINTS[Len(timers[p]) + 1].name) :
       req' = [req EXCEPT ![p] =
                 [server |-> server,
                  t0 |-> now,
                  result |-> InitialResult(ENDPOINTS[Len(timers[p]) + 1], now)]]
  /\ timers' = [timers EXCEPT ![p] = Append(@, [timer |-> "pending", aborts |-> 0])]
  /\ pc' = [pc EXCEPT ![p] = "fetch"]
  /\ UNCHANGED <<network, file, now, i, results, log, readKind, unhandled, exitCode,
                 reported, diskFaulted, fileOps, journal>>

\* Up to the first await: the controller, the timer, the timestamp, t0 and
\* the fetch call.  The server's behaviour for this request is the input.
CheckEndpointStart(p) ==
  /\ pc[p] = "loop"
  /\ i[p] <= NumEndpoints
  /\ \E server \in ServerBehavioursIn(network, ENDPOINTS[i[p]].name) :
       req' = [req EXCEPT ![p] =
                 [server |-> server,
                  t0 |-> now,
                  result |-> InitialResult(ENDPOINTS[i[p]], now)]]
  /\ timers' = [timers EXCEPT ![p] = Append(@, [timer |-> "pending", aborts |-> 0])]
  /\ pc' = [pc EXCEPT ![p] = "fetch"]
  /\ UNCHANGED <<network, file, now, i, results, log, readKind, unhandled, exitCode, reported, diskFaulted, fileOps, journal>>

\* Faulty variant of ClearTimeout: the timer is left as it is.
ClearTimeoutForgotten(t) == t

\* clearTimeout(timeoutId): a pending timer is cancelled, a fired one stays.
ClearTimeout(t) ==
  IF t.timer = "pending" THEN [t EXCEPT !.timer = "cleared"] ELSE t

\* return result, then results.push(result) in main's loop
Return(p, result) ==
  /\ results' = [results EXCEPT ![p] = Append(@, result)]
  /\ i' = [i EXCEPT ![p] = @ + 1]
  /\ req' = [req EXCEPT ![p] = NoRequest]
  /\ pc' = [pc EXCEPT ![p] = "loop"]

\* A catch block that records err.message whatever the error is.
CatchBlockRawMessage(p, errName, errMessage) ==
  LET responseTimeMs == now' - req[p].t0
  IN /\ timers' = [timers EXCEPT ![p][Len(timers[p])] = ClearTimeout(@)]
     /\ Return(p, [req[p].result EXCEPT !.responseTimeMs = responseTimeMs,
                                        !.error = errMessage])

\* Faulty variant of CatchBlock: a failed probe ends main's loop, the later
\* endpoints are not probed.
CatchBlockEndsLoop(p, errName, errMessage) ==
  LET responseTimeMs == now' - req[p].t0
      errorMessage == IF errName = "AbortError"
                      THEN "Request timed out after " \o ToString(TIMEOUT_MS) \o "ms"
                      ELSE errMessage
  IN /\ timers' = [timers EXCEPT ![p][Len(timers[p])] = ClearTimeout(@)]
     /\ results' = [results EXCEPT ![p] =
                      Append(@, [req[p].result EXCEPT
                                   !.responseTimeMs = responseTimeMs,
                                   !.error = errorMessage])]
     /\ i' = [i EXCEPT ![p] = NumEndpoints + 1]
     /\ req' = [req EXCEPT ![p] = NoRequest]
     /\ pc' = [pc EXCEPT ![p] = "loop"]

\* The catch block of checkEndpoint, entered elapsed ms after t0.
CatchBlock(p, errName, errMessage) ==
  LET responseTimeMs == now' - req[p].t0
      errorMessage == IF errName = "AbortError"
                      THEN "Request timed out after " \o ToString(TIMEOUT_MS) \o "ms"
                      ELSE errMessage
  IN /\ timers' = [timers EXCEPT ![p][Len(timers[p])] = ClearTimeout(@)]
     /\ Return(p, [req[p].result EXCEPT !.responseTimeMs = responseTimeMs,
                                        !.error = errorMessage])

\* Run q waits on the network: it is suspended in an await of checkEndpoint.
Waiting(q) ==
  /\ pc[q] \in {"fetch", "text"}
  /\ ~(pc[q] = "fetch" /\ timers[q][Len(timers[q])].timer = "fired")

\* Run q executes synchronous code, which takes no time on the clock.
Busy(q) == pc[q] \notin {"idle", "exited"} /\ ~Waiting(q)

\* Run q, waiting, will never be woken: only the body of its response is
\* awaited and it never ends.
WaitsForever(q) == pc[q] = "text" /\ req[q].server.kind = "stall"

\* The time at which run q, waiting, is woken.
DueOf(q) ==
  IF pc[q] = "text"
  THEN req[q].t0 + req[q].responseTimeMs + req[q].server.bodyMs
  ELSE IF req[q].server.kind = "silent" THEN req[q].t0 + TIMEOUT_MS
  ELSE req[q].t0 + req[q].server.ms

\* Run p is the next to be woken: the clock does not pass a run that is
\* executing, and no other run waits for an earlier time. (Runs are separate
\* processes on one clock; with one run at a time this is always so.)
NextWoken(p) ==
  \A q \in Procs \ {p} :
    /\ Busy(q) => DueOf(p) <= now
    /\ Waiting(q) /\ ~WaitsForever(q) => DueOf(p) <= DueOf(q)

\* fetch resolves with the response headers before the timer fires.
FetchResolve(p) ==
  /\ pc[p] = "fetch"
  /\ req[p].server.kind \in {"response", "reset", "stall"}
  /\ timers[p][Len(timers[p])].timer = "pending"
  /\ req[p].server.ms < TIMEOUT_MS
  /\ NextWoken(p)
  /\ now' = Max(now, req[p].t0 + req[p].server.ms)
  /\ req' = [req EXCEPT ![p] =
               [server |-> @.server, t0 |-> @.t0, result |-> @.result,
                responseTimeMs |-> now' - @.t0]]
  /\ timers' = [timers EXCEPT ![p][Len(timers[p])] = ClearTimeout(@)]
  /\ pc' = [pc EXCEPT ![p] = "text"]
  /\ UNCHANGED <<network, file, i, results, log, readKind, unhandled, exitCode, reported, diskFaulted, fileOps, journal>>

\* The timer set with setInterval: it stays armed when it fires.
TimerFireAsInterval(p) ==
  /\ pc[p] = "fetch"
  /\ req[p].server.kind = "silent"
  /\ timers[p][Len(timers[p])].timer = "pending"
  /\ NextWoken(p)
  /\ now' = Max(now, req[p].t0 + TIMEOUT_MS)
  /\ timers' = [timers EXCEPT ![p][Len(timers[p])] =
                  [timer |-> "pending", aborts |-> @.aborts + 1]]
  /\ UNCHANGED <<network, file, pc, i, req, results, log, readKind, unhandled, exitCode, reported, diskFaulted, fileOps, journal>>

\* The timer callback: controller.abort() after TIMEOUT_MS without response.
TimerFire(p) ==
  /\ pc[p] = "fetch"
  /\ req[p].server.kind = "silent"
  /\ timers[p][Len(timers[p])].timer = "pending"
  /\ NextWoken(p)
  /\ now' = Max(now, req[p].t0 + TIMEOUT_MS)
  /\ timers' = [timers EXCEPT ![p][Len(timers[p])] =
                  [timer |-> "fired", aborts |-> @.aborts + 1]]
  /\ UNCHANGED <<network, file, pc, i, req, results, log, readKind, unhandled, exitCode, reported, diskFaulted, fileOps, journal>>

\* fetch rejects with AbortError once the signal is aborted.
FetchAbort(p) ==
  /\ pc[p] = "fetch"
  /\ timers[p][Len(timers[p])].aborts > 0
  /\ now' = now
  /\ CatchBlock(p, "AbortError", "This operation was aborted")
  /\ UNCHANGED <<network, file, log, readKind, unhandled, exitCode, reported, diskFaulted, fileOps, journal>>

\* fetch rejects with a transport failure before the timer fires.
FetchReject(p) ==
  /\ pc[p] = "fetch"
  /\ req[p].server.kind = "refused"
  /\ timers[p][Len(timers[p])].timer = "pending"
  /\ req[p].server.ms < TIMEOUT_MS
  /\ NextWoken(p)
  /\ now' = Max(now, req[p].t0 + req[p].server.ms)
  /\ CatchBlock(p, "TypeError", req[p].server.message)
  /\ UNCHANGED <<network, file, log, readKind, unhandled, exitCode, reported, diskFaulted, fileOps, journal>>

\* response.text() resolves with the body: the rest of the try block.
TextResolve(p) ==
  /\ pc[p] = "text"
  /\ req[p].server.kind = "response"
  /\ NextWoken(p)
  /\ now' = Max(now, req[p].t0 + req[p].responseTimeMs + req[p].server.bodyMs)
  /\ LET server == req[p].server
         body == server.body
         name == req[p].result.endpoint
     IN Return(p, [req[p].result EXCEPT
                     !.status = server.status,
                     !.ok = ResponseOk(server.status),
                     !.responseTimeMs = req[p].responseTimeMs,
                     !.contentTypeValid = ContentTypeValid(server.contentType),
                     !.responseSizeKB = ToFixed2(ByteLength(body), 1024),
                     !.extraMetric = ExtraMetric(name, body)])
  /\ UNCHANGED <<network, file, timers, log, readKind, unhandled, exitCode, reported, diskFaulted, fileOps, journal>>

\* response.text() rejects (the body stream fails): the catch block.
TextReject(p) ==
  /\ pc[p] = "text"
  /\ req[p].server.kind = "reset"
  /\ NextWoken(p)
  /\ now' = Max(now, req[p].t0 + req[p].responseTimeMs + req[p].server.bodyMs)
  /\ CatchBlock(p, "TypeError", req[p].server.message)
  /\ UNCHANGED <<network, file, log, readKind, unhandled, exitCode, reported, diskFaulted, fileOps, journal>>

\* ------------------------------------------------------------------------
\* Log store
\* ------------------------------------------------------------------------

\* Faulty variant of ReadLogValue: only ENOENT is caught, any other failure
\* to read or parse propagates.
ReadLogValueRethrows(f) ==
  IF f.kind = "array" THEN [threw |-> FALSE, value |-> f.entries]
  ELSE IF f.kind \in {"ENOENT", "nonarray"} THEN [threw |-> FALSE, value |-> <<>>]
  ELSE [threw |-> TRUE, value |-> <<>>]

\* readLog: the parsed array, or [] when the file is missing, unreadable,
\* not JSON or not an array.  Nothing escapes its try/catch.
ReadLogValue(f) ==
  IF f.kind = "array" THEN [threw |-> FALSE, value |-> f.entries]
  ELSE [threw |-> FALSE, value |-> <<>>]

\* JSON text.  The text of a value is kept as its sequence of lexemes: a
\* number is its decimal digits, a string is the quoted string, null, true
\* and false are literals, an object is its members by key.  Numbers the
\* model keeps in hundredths are written in hundredths.
StringKeys == {"endpoint", "url", "error", "label", "severity"}
BooleanKeys == {"ok", "contentTypeValid", "detected"}
ObjectKeys == {"extraMetric", "anomaly"}

\* The decimal digits of a number n >= 0, most significant first.
RECURSIVE Digits(_)
Digits(n) == IF n < 10 THEN <<n>> ELSE Append(Digits(n \div 10), n % 10)

\* The number a non-empty sequence of decimal digits denotes.
RECURSIVE NumberOfDigits(_)
NumberOfDigits(d) ==
  IF Len(d) = 1 THEN d[1]
  ELSE 10 * NumberOfDigits(SubSeq(d, 1, Len(d) - 1)) + d[Len(d)]

\* Faulty variant of JsonStringifyMember: a null number is written as 0.
JsonStringifyMemberNullAsZero(key, value) ==
  IF key \in StringKeys
  THEN IF value = nullStr THEN [literal |-> "null"] ELSE [string |-> value]
  ELSE IF key \in BooleanKeys
  THEN [literal |-> IF value THEN "true" ELSE "false"]
  ELSE [digits |-> IF value = null THEN <<0>> ELSE Digits(value)]

\* JSON.stringify of a member that holds a string, a boolean, a number or null.
JsonStringifyMember(key, value) ==
  IF key \in StringKeys
  THEN IF value = nullStr THEN [literal |-> "null"] ELSE [string |-> value]
  ELSE IF key \in BooleanKeys
  THEN [literal |-> IF value THEN "true" ELSE "false"]
  ELSE IF value = null THEN [literal |-> "null"] ELSE [digits |-> Digits(value)]

\* JSON.stringify of an entry: an object whose members extraMetric and
\* anomaly are objects of scalars.
JsonStringifyObject(obj) ==
  [k \in DOMAIN obj |->
     IF k \in ObjectKeys
     THEN [members |-> [j \in DOMAIN obj[k] |-> JsonStringifyMember(j, obj[k][j])]]
     ELSE JsonStringifyMember(k, obj[k])]

\* JSON.stringify(trimmed, null, 2)
JsonStringify(array) ==
  [k \in 1..Len(array) |->
     IF IsNullElem(array[k]) THEN [literal |-> "null"]
     ELSE JsonStringifyObject(array[k])]

\* JSON.parse of the text of a scalar member.
JsonParseMember(key, text) ==
  IF "literal" \in DOMAIN text
  THEN IF text.literal = "null"
       THEN IF key \in StringKeys THEN nullStr ELSE null
       ELSE text.literal = "true"
  ELSE IF "digits" \in DOMAIN text THEN NumberOfDigits(text.digits)
  ELSE text.string

JsonParseObject(text) ==
  [k \in DOMAIN text |->
     IF k \in ObjectKeys
     THEN [j \in DOMAIN text[k].members |-> JsonParseMember(j, text[k].members[j])]
     ELSE JsonParseMember(k, text[k])]

\* JSON.parse(raw) of the text of an array.
JsonParse(text) ==
  [k \in 1..Len(text) |->
     IF "literal" \in DOMAIN text[k] THEN JsonNull
     ELSE JsonParseObject(text[k])]

\* A trim that takes the window of the anomaly detector for the cap.
TrimmedToWindow(entries) == SliceLast(entries, ANOMALY_WINDOW)

\* Faulty variant of Trimmed: log.slice(0, MAX_LOG_ENTRIES) keeps the oldest.
TrimmedKeepsOldest(entries) ==
  SubSeq(entries, 1, Min(Len(entries), MAX_LOG_ENTRIES))

\* log.slice(-MAX_LOG_ENTRIES)
Trimmed(entries) == SliceLast(entries, MAX_LOG_ENTRIES)

\* ------------------------------------------------------------------------
\* main: after the probes
\* ------------------------------------------------------------------------

\* const log = readLog()
ReadLog(p) ==
  /\ pc[p] = "loop"
  /\ i[p] > NumEndpoints
  /\ LET r == ReadLogValue(file) IN
       IF r.threw
       THEN /\ unhandled' = [unhandled EXCEPT ![p] = "readLog"]
            /\ pc' = [pc EXCEPT ![p] = "catch"]
            /\ log' = log
       ELSE /\ log' = [log EXCEPT ![p] = r.value]
            /\ pc' = [pc EXCEPT ![p] = "annotate"]
            /\ unhandled' = unhandled
  /\ readKind' = [readKind EXCEPT ![p] =
                    IF file.kind = "array"
                         /\ \E k \in 1..Len(file.entries) : IsNullElem(file.entries[k])
                    THEN "array with null" ELSE file.kind]
  /\ fileOps' = [fileOps EXCEPT ![p] = Append(@, "readFileSync")]
  /\ journal' = Append(journal, [run |-> p, op |-> "readFileSync"])
  /\ UNCHANGED <<network, file, now, i, req, timers, results, exitCode, reported, diskFaulted>>

\* result.anomaly = detectAnomaly(result.endpoint, result.responseTimeMs, log)
Verdict(result, historicalLog) ==
  DetectAnomaly(result.endpoint, result.responseTimeMs, historicalLog)

\* Faulty variant of Annotated: the results are scored against the log with
\* the results of this run already appended.
AnnotatedAgainstOwnRun(rs, historicalLog) ==
  [k \in 1..Len(rs) |->
     [rs[k] EXCEPT !.anomaly = Verdict(rs[k], historicalLog \o rs)]]

\* The for loop over results, stopped by the first call that throws.
Annotated(rs, historicalLog) ==
  [k \in 1..Len(rs) |->
     IF \E j \in 1..k : Threw(Verdict(rs[j], historicalLog))
     THEN rs[k]
     ELSE [rs[k] EXCEPT !.anomaly = Verdict(rs[k], historicalLog)]]

\* Faulty variant of Pushed: only the results of the endpoints that answered
\* are appended.
PushedOkOnly(entries, rs) == entries \o SelectSeq(rs, LAMBDA r : r.ok)

\* Faulty variant of Pushed: the results are put in front of the entries.
PushedInFront(entries, rs) == rs \o entries

\* log.push(...results)
Pushed(entries, rs) == entries \o rs

\* The annotation loop and log.push(...results)
Annotate(p) ==
  /\ pc[p] = "annotate"
  /\ results' = [results EXCEPT ![p] = Annotated(@, log[p])]
  /\ IF \E k \in 1..Len(results[p]) : Threw(Verdict(results[p][k], log[p]))
     THEN /\ unhandled' = [unhandled EXCEPT ![p] = "TypeError"]
          /\ pc' = [pc EXCEPT ![p] = "catch"]
          /\ log' = log
     ELSE /\ log' = [log EXCEPT ![p] = Pushed(@, results'[p])]
          /\ pc' = [pc EXCEPT ![p] = "writeLog"]
          /\ unhandled' = unhandled
  /\ UNCHANGED <<network, file, now, i, req, timers, readKind, exitCode, reported, diskFaulted, fileOps, journal>>

\* A writeLog that appends the results to what the file holds when it is
\* written, not to what the run read.
WriteLogAppendingToFile(p) ==
  /\ pc[p] = "writeLog"
  /\ file' = [kind |-> "array",
              entries |-> JsonParse(JsonStringify(Trimmed(
                            (IF file.kind = "array" THEN file.entries ELSE <<>>)
                              \o results[p])))]
  /\ pc' = [pc EXCEPT ![p] = "tally"]
  /\ fileOps' = [fileOps EXCEPT ![p] = Append(@, "writeFileSync")]
  /\ journal' = Append(journal, [run |-> p, op |-> "writeFileSync"])
  /\ UNCHANGED <<network, now, i, req, timers, results, log, readKind, unhandled, exitCode, reported, diskFaulted>>

\* A writeLog that is skipped when every endpoint failed: the run goes
\* straight to its exit status.
WriteLogSkippedOnOutage(p) ==
  /\ pc[p] = "writeLog"
  /\ IF \A k \in 1..Len(results[p]) : ~results[p][k].ok
     THEN file' = file /\ fileOps' = fileOps
     ELSE /\ file' = [kind |-> "array",
                      entries |-> JsonParse(JsonStringify(Trimmed(log[p])))]
          /\ fileOps' = [fileOps EXCEPT ![p] = Append(@, "writeFileSync")]
  /\ pc' = [pc EXCEPT ![p] = "tally"]
  /\ UNCHANGED <<network, now, i, req, timers, results, log, readKind, unhandled, exitCode, reported, diskFaulted, journal>>

\* writeLog(log): the file is replaced by the text of the trimmed array.
\* file.entries is the array the text of the file parses to.
WriteLog(p) ==
  /\ pc[p] = "writeLog"
  /\ file' = [kind |-> "array",
              entries |-> JsonParse(JsonStringify(Trimmed(log[p])))]
  /\ pc' = [pc EXCEPT ![p] = "tally"]
  /\ fileOps' = [fileOps EXCEPT ![p] = Append(@, "writeFileSync")]
  /\ journal' = Append(journal, [run |-> p, op |-> "writeFileSync"])
  /\ UNCHANGED <<network, now, i, req, timers, results, log, readKind, unhandled, exitCode, reported, diskFaulted>>

\* writeFileSync throws when it opens the file (EACCES, EROFS): the file is
\* as it was.  At most one write fails in a behaviour.
WriteLogFail(p) ==
  /\ pc[p] = "writeLog"
  /\ ~diskFaulted
  /\ diskFaulted' = TRUE
  /\ unhandled' = [unhandled EXCEPT ![p] = "writeFileSync"]
  /\ pc' = [pc EXCEPT ![p] = "catch"]
  /\ fileOps' = [fileOps EXCEPT ![p] = Append(@, "writeFileSync")]
  /\ journal' = Append(journal, [run |-> p, op |-> "writeFileSync"])
  /\ UNCHANGED <<network, file, now, i, req, timers, results, log, readKind, exitCode, reported>>

\* writeFileSync opens the file, which truncates it, and throws while it
\* writes (ENOSPC, EIO): the file holds a proper prefix of the text, which is
\* not JSON.
WriteLogTorn(p) ==
  /\ pc[p] = "writeLog"
  /\ ~diskFaulted
  /\ diskFaulted' = TRUE
  /\ file' = [kind |-> "invalid", entries |-> <<>>]
  /\ unhandled' = [unhandled EXCEPT ![p] = "writeFileSync ENOSPC"]
  /\ pc' = [pc EXCEPT ![p] = "catch"]
  /\ fileOps' = [fileOps EXCEPT ![p] = Append(@, "writeFileSync")]
  /\ journal' = Append(journal, [run |-> p, op |-> "writeFileSync"])
  /\ UNCHANGED <<network, now, i, req, timers, results, log, readKind, exitCode, reported>>

\* results.filter((r) => !r.ok).length
FailCount(rs) == Cardinality({k \in 1..Len(rs) : ~rs[k].ok})

\* Faulty variant of ExitStatus: exit 1 as soon as one endpoint failed.
ExitStatusAnyFailure(rs) == IF FailCount(rs) > 0 THEN 1 ELSE 0

\* process.exit(1) when every endpoint failed; otherwise main returns and
\* the process ends with code 0.
ExitStatus(rs) == IF FailCount(rs) = Len(rs) THEN 1 ELSE 0

\* A tally that saves the log once more before it exits.
TallyWritesAgain(p) ==
  /\ pc[p] = "tally"
  /\ exitCode' = [exitCode EXCEPT ![p] = ExitStatus(results[p])]
  /\ pc' = [pc EXCEPT ![p] = "exited"]
  /\ fileOps' = [fileOps EXCEPT ![p] = Append(@, "writeFileSync")]
  /\ UNCHANGED <<network, file, now, i, req, timers, results, log, readKind, unhandled, reported, diskFaulted, journal>>

Tally(p) ==
  /\ pc[p] = "tally"
  /\ exitCode' = [exitCode EXCEPT ![p] = ExitStatus(results[p])]
  /\ pc' = [pc EXCEPT ![p] = "exited"]
  /\ UNCHANGED <<network, file, now, i, req, timers, results, log, readKind, unhandled, reported, diskFaulted, fileOps, journal>>

\* Faulty variant of CatchUnhandled: the error is swallowed, the process ends
\* with code 0.
CatchUnhandledSilently(p) ==
  /\ pc[p] = "catch"
  /\ exitCode' = [exitCode EXCEPT ![p] = 0]
  /\ pc' = [pc EXCEPT ![p] = "exited"]
  /\ UNCHANGED <<network, file, now, i, req, timers, results, log, readKind, unhandled, reported, diskFaulted, fileOps, journal>>

\* main().catch: logError(`Unhandled error: ${err.message}`), process.exit(1)
CatchUnhandled(p) ==
  /\ pc[p] = "catch"
  /\ reported' = [reported EXCEPT ![p] = "Unhandled error: " \o unhandled[p]]
  /\ exitCode' = [exitCode EXCEPT ![p] = 1]
  /\ pc' = [pc EXCEPT ![p] = "exited"]
  /\ UNCHANGED <<network, file, now, i, req, timers, results, log, readKind, unhandled, diskFaulted, fileOps, journal>>

\* ------------------------------------------------------------------------
\* Specification
\* ------------------------------------------------------------------------

Next ==
  \E p \in Procs :
    \/ StartRun(p)
    \/ CheckEndpointStart(p)
    \/ FetchResolve(p)
    \/ TimerFire(p)
    \/ FetchAbort(p)
    \/ FetchReject(p)
    \/ TextResolve(p)
    \/ TextReject(p)
    \/ ReadLog(p)
    \/ Annotate(p)
    \/ WriteLog(p)
    \/ WriteLogFail(p)
    \/ WriteLogTorn(p)
    \/ Tally(p)
    \/ CatchUnhandled(p)

Spec == Init /\ [][Next]_vars

\* The event loop runs every continuation that is ready: a timer that is
\* due fires, a settled promise resumes the function that awaits it, and
\* synchronous code runs to its end.
FairSpec == Spec /\ WF_vars(Next)

\* ------------------------------------------------------------------------
\* Vocabulary of the properties
\* ------------------------------------------------------------------------

\* ------------------------------------------------------------------------
\* Overlapping runs
\* ------------------------------------------------------------------------

\* A run is started while earlier runs may still be going: each run is a
\* process of its own and nothing makes one wait for another. Runs are
\* numbered in the order they start.
StartOverlappingRun(p) ==
  /\ pc[p] = "idle"
  /\ \A q \in 1..(p - 1) : pc[q] # "idle"
  /\ pc' = [pc EXCEPT ![p] = "loop"]
  /\ results' = [results EXCEPT ![p] = <<>>]
  /\ i' = [i EXCEPT ![p] = 1]
  /\ UNCHANGED <<network, file, now, req, timers, log, readKind, unhandled, exitCode, reported, diskFaulted, fileOps, journal>>

\* The overlapping runs find every server nominal and start from no log, an
\* empty log or five rounds.
OverlapInit ==
  /\ network = "steady"
  /\ file \in {NoArrayFile("ENOENT"), ArrayFile(<<>>), ArrayFile(Rounds(5))}
  /\ now = NumEndpoints * MAX_LOG_ENTRIES
  /\ pc = [p \in Procs |-> "idle"]
  /\ i = [p \in Procs |-> 1]
  /\ req = [p \in Procs |-> NoRequest]
  /\ timers = [p \in Procs |-> <<>>]
  /\ results = [p \in Procs |-> <<>>]
  /\ log = [p \in Procs |-> <<>>]
  /\ readKind = [p \in Procs |-> "none"]
  /\ unhandled = [p \in Procs |-> "none"]
  /\ exitCode = [p \in Procs |-> null]
  /\ reported = [p \in Procs |-> "none"]
  /\ diskFaulted = FALSE
  /\ fileOps = [p \in Procs |-> <<>>]
  /\ journal = <<>>

\* The steps of overlapping runs: those of Next that nominal servers allow.
OverlapNext ==
  \E p \in Procs :
    \/ StartOverlappingRun(p)
    \/ CheckEndpointStart(p)
    \/ FetchResolve(p)
    \/ TextResolve(p)
    \/ ReadLog(p)
    \/ Annotate(p)
    \/ WriteLog(p)
    \/ WriteLogFail(p)
    \/ WriteLogTorn(p)
    \/ Tally(p)
    \/ CatchUnhandled(p)

OverlapSpec == OverlapInit /\ [][OverlapNext]_vars

\* Run p has appended its results to its log array (log.push(...results)).
Appended(p) ==
  \/ pc[p] \in {"writeLog", "tally"}
  \/ /\ pc[p] \in {"catch", "exited"}
     /\ unhandled[p] \in {"none", "writeFileSync", "writeFileSync ENOSPC"}

\* What readLog returned to run p.
Snapshot(p) ==
  IF Appended(p) THEN SubSeq(log[p], 1, Len(log[p]) - Len(results[p])) ELSE log[p]

\* Run p has just attached its verdicts and appended its results; neither
\* its results nor its log change afterwards.
Judged(p) == pc[p] = "writeLog"

\* Run p has written the log file.
Saved(p) == pc[p] = "tally" \/ (pc[p] = "exited" /\ unhandled[p] = "none")

\* The write of run p failed half-way and left a torn file.
Torn(p) == unhandled[p] = "writeFileSync ENOSPC"

\* Run p is the last run that has written the log file.
LastSaved(p) == Saved(p) /\ \A q \in Procs : q > p => ~Saved(q) /\ ~Torn(q)

Failed(result) == result.error # nullStr

NotDetected == [detected |-> FALSE]

\* ------------------------------------------------------------------------
\* Properties
\* ------------------------------------------------------------------------

\* C1: once a run has written the log, the persisted log holds at most
\* MAX_LOG_ENTRIES (200) entries, and what the last writing run persisted is
\* its appended log with entries removed from the head only, and only when
\* the cap would otherwise be exceeded: a suffix of (snapshot followed by the
\* run's results), of length min(200, its length).
C1_LogCappedOldestEvictedFirst ==
  \A p \in Procs :
    /\ LastSaved(p) => file.kind = "array"
    /\ Saved(p) => Len(file.entries) <= 200
    /\ LastSaved(p) =>
         LET evicted == Len(log[p]) - Len(file.entries)
         IN /\ evicted >= 0
            /\ file.entries = SubSeq(log[p], evicted + 1, Len(log[p]))
            /\ evicted > 0 => Len(file.entries) = 200

\* C1 witness: a run whose appended log exceeded the cap has written the
\* file, which holds exactly 200 entries, the first of them not the first of
\* the appended log.
C1_Witness ==
  \E p \in Procs :
    /\ LastSaved(p)
    /\ Len(log[p]) > 200
    /\ Len(file.entries) = 200
    /\ file.entries[1] # log[p][1]
    /\ file.entries[200] = results[p][NumEndpoints]

\* C2 as stated: the exit code is 1 iff every result of the run has ok=false.
\* Stated for the runs whose log held no null element, so that a violation
\* does not rest on the TypeError of C5.
C2_ExitOneIffEveryResultFailed ==
  \A p \in Procs :
    pc[p] = "exited" /\ readKind[p] # "array with null" =>
      (exitCode[p] = 1 <=> \A k \in 1..Len(results[p]) : ~results[p][k].ok)

\* C2 amended: the exit code is 0 or 1, and it is 1 iff every result of the
\* run has ok=false or main() ended in an unhandled error; a run that
\* completes with at least one ok=true result exits with 0.
C2_ExitOneIffAllFailedOrUnhandled ==
  \A p \in Procs :
    /\ pc[p] = "exited" =>
         /\ exitCode[p] \in {0, 1}
         /\ exitCode[p] = 1 <=>
              \/ unhandled[p] # "none"
              \/ \A k \in 1..Len(results[p]) : ~results[p][k].ok
    /\ pc[p] # "exited" => exitCode[p] = null

\* C2 witness: a completed run with both an ok=true and an ok=false result
\* has exited with 0.
C2_Witness ==
  \E p \in Procs :
    /\ pc[p] = "exited" /\ unhandled[p] = "none" /\ exitCode[p] = 0
    /\ \E k \in 1..Len(results[p]) : results[p][k].ok
    /\ \E k \in 1..Len(results[p]) : ~results[p][k].ok

\* C3 as stated: in every result checkEndpoint returned, responseTimeMs is
\* null iff error is non-null.
C3_ResponseTimeNullIffError ==
  \A p \in Procs : \A k \in 1..Len(results[p]) :
    results[p][k].responseTimeMs = null <=> Failed(results[p][k])

\* C4 as stated: every result with a non-null error carries the verdict
\* {detected:false}, whatever the snapshot holds for its endpoint.
C4_FailedProbeNeverJudged ==
  \A p \in Procs :
    Appended(p) =>
      \A k \in 1..Len(results[p]) :
        Failed(results[p][k]) => results[p][k].anomaly = NotDetected

\* The log file run p read was corrupt: not JSON, not an array, or an array
\* with a null element.
ReadCorrupt(p) == readKind[p] \in {"invalid", "nonarray", "array with null"}

\* C5 as stated: a run that read a corrupt log ends without an unhandled
\* error of its own making (a failing write apart) and, having written, has
\* persisted a log that ends with this run's results.
C5_CorruptLogNeverBlocks ==
  \A p \in Procs :
    ReadCorrupt(p) =>
      /\ unhandled[p] \in {"none", "writeFileSync", "writeFileSync ENOSPC"}
      /\ LastSaved(p) =>
           SliceLast(file.entries, Len(results[p])) = results[p]

\* The log file run p read was absent, unreadable, not JSON or not an array.
ReadNoArray(p) == readKind[p] \in {"ENOENT", "EACCES", "invalid", "nonarray"}

\* C6: readLog raises nothing; when the file is absent, unreadable, not JSON
\* or not an array it returns the empty sequence, every verdict of the run is
\* then not-detected, and the log the run writes holds exactly this run's
\* results.
C6_ReadLogNeverRaises ==
  \A p \in Procs :
    /\ unhandled[p] # "readLog"
    /\ ReadNoArray(p) =>
         /\ Snapshot(p) = <<>>
         /\ unhandled[p] \in {"none", "writeFileSync", "writeFileSync ENOSPC"}
         /\ LastSaved(p) =>
              file = [kind |-> "array", entries |-> results[p]]

\* C6 witness: a run that found invalid JSON has written a log of exactly
\* its three results.
C6_Witness ==
  \E p \in Procs :
    /\ readKind[p] = "invalid"
    /\ pc[p] = "tally"
    /\ Len(results[p]) = NumEndpoints
    /\ file.entries = results[p]

\* The positions of the snapshot entries that qualify as samples of an
\* endpoint: same endpoint name, non-null responseTimeMs.
SampleIdx(name, snapshot) ==
  {j \in 1..Len(snapshot) :
     /\ ~IsNullElem(snapshot[j])
     /\ snapshot[j].endpoint = name
     /\ snapshot[j].responseTimeMs # null}

\* Run 1 started from an empty log: no file, or an empty array.
FreshStart ==
  /\ readKind[1] \in {"ENOENT", "array"}
  /\ Snapshot(1) = <<>>

\* C7: when a run has attached its verdicts, a result whose endpoint has
\* fewer than 5 qualifying entries in the
\* snapshot is never flagged; in particular no result of the first 4 runs
\* after a start from an empty log is.
C7_NoDetectionBelowMinSamples ==
  \A p \in Procs :
    Judged(p) =>
      \A k \in 1..Len(results[p]) :
        /\ Cardinality(SampleIdx(results[p][k].endpoint, Snapshot(p))) < 5
             => results[p][k].anomaly = NotDetected
        /\ FreshStart /\ p <= 4 => results[p][k].anomaly = NotDetected

\* C7 witness: a result 3.5 times slower than each of the 4 qualifying
\* entries of its endpoint is not flagged.
C7_Witness ==
  \E p \in Procs :
    /\ Appended(p)
    /\ \E k \in 1..Len(results[p]) :
         LET r == results[p][k]
             idx == SampleIdx(r.endpoint, Snapshot(p))
         IN /\ Cardinality(idx) = 4
            /\ \A j \in idx : Snapshot(p)[j].responseTimeMs = 100
            /\ r.responseTimeMs = 350
            /\ r.anomaly = NotDetected

\* The integer nearest to num / den, halves upward (num >= 0, den > 0).
Nearest(num, den) ==
  LET whole == num \div den
  IN IF 2 * (num - whole * den) >= den THEN whole + 1 ELSE whole

\* The most recent (at most 10) of the qualifying positions.
WindowIdx(idx) == {j \in idx : Cardinality({m \in idx : m > j}) < 10}

RECURSIVE SumTimesAt(_, _)
SumTimesAt(idx, snapshot) ==
  IF idx = {} THEN 0
  ELSE LET j == CHOOSE j \in idx : TRUE
       IN snapshot[j].responseTimeMs + SumTimesAt(idx \ {j}, snapshot)

\* The mean, rounded to the nearest integer, of the response times of the
\* most recent (at most 10) qualifying entries of an endpoint.
Baseline(name, snapshot) ==
  LET w == WindowIdx(SampleIdx(name, snapshot))
  IN Nearest(SumTimesAt(w, snapshot), Cardinality(w))

\* C8: when a run has attached its verdicts: with a non-null latency, at
\* least 5 qualifying entries and a non-zero
\* rolling average, the verdict follows from factor = latency / average
\* rounded to 2 decimals: below 2.00 not detected; from 2.00 and below 3.00
\* detected, warning; from 3.00 detected, critical.
C8_VerdictFollowsDeviationFactor ==
  \A p \in Procs :
    Judged(p) =>
      \A k \in 1..Len(results[p]) :
        LET r == results[p][k]
            idx == SampleIdx(r.endpoint, Snapshot(p))
        IN r.responseTimeMs # null /\ Cardinality(idx) >= 5 =>
             LET avg == Baseline(r.endpoint, Snapshot(p))
             IN avg # 0 =>
                  LET factor == Nearest(100 * r.responseTimeMs, avg)
                  IN /\ factor < 200 => r.anomaly = NotDetected
                     /\ factor >= 200 /\ factor < 300 =>
                          r.anomaly = [detected |-> TRUE, rollingAvgMs |-> avg,
                                       deviationFactor |-> factor,
                                       severity |-> "warning"]
                     /\ factor >= 300 =>
                          r.anomaly = [detected |-> TRUE, rollingAvgMs |-> avg,
                                       deviationFactor |-> factor,
                                       severity |-> "critical"]

\* C8 witness: 9 qualifying entries averaging 100 ms, not all equal, and a
\* current 350 ms give factor 3.50 and severity critical.
C8_Witness ==
  \E p \in Procs :
    /\ Appended(p)
    /\ \E k \in 1..Len(results[p]) :
         LET r == results[p][k]
             idx == SampleIdx(r.endpoint, Snapshot(p))
         IN /\ Cardinality(idx) = 9
            /\ SumTimesAt(idx, Snapshot(p)) = 900
            /\ \E j \in idx : Snapshot(p)[j].responseTimeMs # 100
            /\ r.responseTimeMs = 350
            /\ r.anomaly = [detected |-> TRUE, rollingAvgMs |-> 100,
                            deviationFactor |-> 350, severity |-> "critical"]

\* The positions of the snapshot entries of an endpoint that carry a null
\* responseTimeMs.
NullTimeIdx(name, snapshot) ==
  {j \in 1..Len(snapshot) :
     /\ ~IsNullElem(snapshot[j])
     /\ snapshot[j].endpoint = name
     /\ snapshot[j].responseTimeMs = null}

\* C9: when a run has attached its verdicts, the entries with a null
\* responseTimeMs have taken no part in the baseline:
\* the minimum of 5 counts the entries with a non-null time only, and the
\* rolling average of a verdict is the rounded mean of the most recent (at
\* most 10) entries with a non-null time, however many entries with a null
\* time lie among or after them; the verdict is what that mean gives.
C9_NullTimesExcludedFromBaseline ==
  \A p \in Procs :
    Judged(p) =>
      \A k \in 1..Len(results[p]) :
        LET r == results[p][k]
            n == Cardinality(SampleIdx(r.endpoint, Snapshot(p)))
            mean == Baseline(r.endpoint, Snapshot(p))
        IN r.responseTimeMs # null =>
             /\ n < 5 => r.anomaly = NotDetected
             /\ n >= 5 /\ r.anomaly.detected => r.anomaly.rollingAvgMs = mean
             /\ n >= 5 =>
                  (r.anomaly.detected <=>
                     mean > 0 /\ 200 * r.responseTimeMs >= 399 * mean)

\* C9 witness: the endpoint's entries in the snapshot include entries with a
\* null time, 5 of them among its last 10 entries, and the verdict is taken
\* against the mean of the 8 entries with a time (175 ms), three of which
\* are older than those last 10 entries.
C9_Witness ==
  \E p \in Procs :
    /\ Appended(p)
    /\ \E k \in 1..Len(results[p]) :
         LET r == results[p][k]
             snap == Snapshot(p)
             idx == SampleIdx(r.endpoint, snap)
             nulls == NullTimeIdx(r.endpoint, snap)
         IN /\ Cardinality(idx) = 8
            /\ Cardinality(nulls) = 5
            /\ Cardinality({j \in idx : Cardinality({m \in idx \cup nulls : m > j}) < 10}) = 5
            /\ r.responseTimeMs = 350
            /\ r.anomaly = [detected |-> TRUE, rollingAvgMs |-> 175,
                            deviationFactor |-> 200, severity |-> "warning"]

\* C10 as stated: no entry recorded for a failed or timed-out probe (an entry
\* with a non-null error) is among the entries a later run takes its rolling
\* average from.
C10_OutagesExcludedFromBaseline ==
  \A p \in Procs :
    readKind[p] # "none" =>
      \A e \in 1..NumEndpoints :
        \A j \in WindowIdx(SampleIdx(ENDPOINTS[e].name, Snapshot(p))) :
          ~Failed(Snapshot(p)[j])

\* C11: what a run reads from the log the previous run wrote (writeLog, then
\* readLog) is the sequence of N entries the previous run passed to writeLog,
\* entry for entry, field for field and in order, when N <= 200, and its last
\* 200 entries, in order, when N > 200.
C11_WriteThenReadRoundTrip ==
  \A p \in Procs : \A q \in Procs :
    q = p + 1 /\ Saved(p) /\ pc[q] = "annotate" =>
      LET written == log[p]
          N == Len(written)
      IN /\ readKind[q] = "array"
         /\ N <= 200 => log[q] = written
         /\ N > 200 => log[q] = SubSeq(written, N - 199, N)

\* C11 witness: the second run has read back a log whose entries include one
\* of a timed-out probe (status null, an error text) with a four-member
\* anomaly verdict, equal to what the first run passed to writeLog.
C11_Witness ==
  /\ Saved(1) /\ pc[2] = "annotate"
  /\ log[2] = log[1]
  /\ \E k \in 1..Len(log[2]) :
       /\ log[2][k].status = null
       /\ log[2][k].error # nullStr
       /\ log[2][k].anomaly.detected
       /\ log[2][k].anomaly.severity = "critical"

\* C12 as stated: no probe blocks for ever: every call of checkEndpoint that
\* has started returns to main's loop, and every run that has started
\* reaches its exit.
C12_NoProbeBlocksForever ==
  \A p \in Procs :
    /\ (pc[p] \in {"fetch", "text"}) ~> (pc[p] = "loop")
    /\ (pc[p] # "idle") ~> (pc[p] = "exited")

\* C13: the timeout timer of every call of checkEndpoint that has returned
\* has fired or has been cleared, on the success path and on the failure
\* path: it is not pending, so it cannot fire later; a cleared timer has
\* aborted nothing and a fired one has aborted its own request once.
C13_NoTimerPendingAfterReturn ==
  \A p \in Procs :
    /\ Len(results[p]) <= Len(timers[p])
    /\ \A k \in 1..Len(results[p]) :
         /\ timers[p][k].timer \in {"cleared", "fired"}
         /\ timers[p][k].timer = "cleared" => timers[p][k].aborts = 0
         /\ timers[p][k].timer = "fired" => timers[p][k].aborts = 1

\* C13 witness: a run whose first probe timed out (timer fired), whose
\* second failed before the timeout (timer cleared in the catch block) and
\* whose third succeeded (timer cleared after fetch resolved).
C13_Witness ==
  \E p \in Procs :
    /\ Len(results[p]) = NumEndpoints
    /\ timers[p][1].timer = "fired" /\ Failed(results[p][1])
    /\ timers[p][2].timer = "cleared" /\ Failed(results[p][2])
    /\ timers[p][3].timer = "cleared" /\ results[p][3].ok

\* Run p has a probe in flight: checkEndpoint was called and has not returned.
InFlight(p) == pc[p] \in {"fetch", "text"}

\* C14: within a run at most one probe is in flight (the calls started are
\* the calls returned, plus one while a probe is in flight), the probes run
\* in the order of ENDPOINTS, and a probe starts only when the one before it
\* has returned: not earlier than that one's start plus its response time.
C14_ProbesStrictlySequential ==
  \A p \in Procs :
    LET started == Len(timers[p])
        returned == Len(results[p])
    IN /\ started = returned + (IF InFlight(p) THEN 1 ELSE 0)
       /\ started <= NumEndpoints
       /\ \A k \in 1..returned : results[p][k].endpoint = ENDPOINTS[k].name
       /\ InFlight(p) =>
            /\ req[p].result.endpoint = ENDPOINTS[started].name
            /\ returned > 0 =>
                 req[p].t0 >= results[p][returned].timestamp
                              + results[p][returned].responseTimeMs
       /\ \A k \in 1..(returned - 1) :
            results[p][k + 1].timestamp >=
              results[p][k].timestamp + results[p][k].responseTimeMs

\* C14 witness: the third probe is in flight after the first timed out and
\* the second succeeded; it started after both had taken their time.
C14_Witness ==
  \E p \in Procs :
    /\ pc[p] = "fetch"
    /\ Len(timers[p]) = 3 /\ Len(results[p]) = 2
    /\ results[p][1].responseTimeMs = TIMEOUT_MS
    /\ results[p][2].ok
    /\ req[p].t0 > results[p][1].timestamp + TIMEOUT_MS

\* C15: when a run has attached its verdicts, its log array is what readLog
\* returned for the file as it still is (nothing of this run is in it)
\* followed by this run's results, and every verdict is what detectAnomaly
\* gives against that same array: the snapshot is the same for all results
\* and holds no result of this run.
C15_VerdictsAgainstPriorSnapshot ==
  \A p \in Procs :
    Judged(p) =>
      LET snapshot == ReadLogValue(file).value
      IN /\ log[p] = snapshot \o results[p]
         /\ \A k \in 1..Len(results[p]) :
              results[p][k].anomaly =
                DetectAnomaly(results[p][k].endpoint,
                              results[p][k].responseTimeMs, snapshot)

\* C15 witness: a run has attached a verdict that would have been different
\* had the results of this run been part of the baseline: 4 samples of
\* 100 ms in the snapshot and a probe of 350 ms, not detected.
C15_Witness ==
  \E p \in Procs :
    /\ Judged(p)
    /\ \E k \in 1..Len(results[p]) :
         /\ results[p][k].responseTimeMs = 350
         /\ results[p][k].anomaly = NotDetected
         /\ DetectAnomaly(results[p][k].endpoint, 350, log[p]) # NotDetected

\* C16: the log a run has persisted ends with exactly one result per
\* endpoint of ENDPOINTS, in that order, and they are this run's results,
\* those of failed probes included.
C16_OneResultPerEndpointAppended ==
  \A p \in Procs :
    LastSaved(p) =>
      /\ Len(results[p]) = NumEndpoints
      /\ \A k \in 1..NumEndpoints : results[p][k].endpoint = ENDPOINTS[k].name
      /\ file.kind = "array"
      /\ Len(file.entries) >= NumEndpoints
      /\ SliceLast(file.entries, NumEndpoints) = results[p]

\* C16 witness: a run with two successes and one failure has exited with
\* code 0 and the persisted log ends with its three results, the failed one
\* among them.
C16_Witness ==
  \E p \in Procs :
    /\ LastSaved(p) /\ pc[p] = "exited" /\ exitCode[p] = 0
    /\ FailCount(results[p]) = 1
    /\ \E k \in 1..NumEndpoints :
         /\ Failed(results[p][k])
         /\ file.entries[Len(file.entries) - NumEndpoints + k] = results[p][k]

\* Run p has left the for loop over ENDPOINTS.
LeftLoop(p) == pc[p] \in {"annotate", "writeLog", "tally", "catch", "exited"}

\* C17: in a run no endpoint is requested more than once (one timer, one
\* fetch per call; the calls are at most the endpoints, in their order);
\* whatever the results so far, failures included, the request of the next
\* endpoint is what the loop does next; and a run leaves the loop only when
\* every endpoint has been requested once and has given its result.
C17_EachEndpointRequestedOnce ==
  \A p \in Procs :
    /\ Len(timers[p]) <= NumEndpoints
    /\ \A k \in 1..Len(results[p]) : results[p][k].endpoint = ENDPOINTS[k].name
    /\ pc[p] = "loop" =>
         /\ i[p] = Len(results[p]) + 1
         /\ Len(timers[p]) = Len(results[p])
         /\ i[p] <= NumEndpoints => ENABLED CheckEndpointStart(p)
         /\ i[p] <= NumEndpoints => ~ENABLED ReadLog(p)
    /\ LeftLoop(p) =>
         /\ Len(timers[p]) = NumEndpoints
         /\ Len(results[p]) = NumEndpoints

\* C17 witness: a run has left the loop with three requests made, the first
\* two of them failed (a timeout, then a transport failure) and the third
\* answered.
C17_Witness ==
  \E p \in Procs :
    /\ pc[p] = "annotate"
    /\ Len(timers[p]) = NumEndpoints
    /\ results[p][1].error = "Request timed out after 15000ms"
    /\ results[p][2].error = "fetch failed"
    /\ results[p][3].ok /\ results[p][3].error = nullStr

\* The log file as run p found it when it read it.
FileBefore(p) ==
  IF readKind[p] \in {"array", "array with null"} THEN ArrayFile(Snapshot(p))
  ELSE NoArrayFile(readKind[p])

\* Run p is the latest run that has read the log file.
LatestReader(p) ==
  readKind[p] # "none" /\ \A q \in Procs : q > p => readKind[q] = "none"

\* C18 as stated: at every moment the file is either the complete log from
\* before the run or the complete trimmed log of the run: for the latest run
\* that has read the log, the file is what that run read or the text of its
\* trimmed log.
C18_LogWrittenAtomically ==
  \A p \in Procs :
    LatestReader(p) =>
      \/ file = FileBefore(p)
      \/ Appended(p) /\ file = ArrayFile(Trimmed(log[p]))

\* C19: a run whose write of the log file failed does not go on to its
\* tally: main() rejects, the error is reported by main().catch and the
\* process exits with code 1, whatever the results of the probes.
C19_WriteFailureIsFatal ==
  \A p \in Procs :
    unhandled[p] \in {"writeFileSync", "writeFileSync ENOSPC"} =>
      /\ pc[p] \in {"catch", "exited"}
      /\ ~Saved(p)
      /\ pc[p] = "catch" => ENABLED CatchUnhandled(p)
      /\ pc[p] = "exited" =>
           /\ exitCode[p] = 1
           /\ reported[p] = "Unhandled error: " \o unhandled[p]

\* C19 witness: a run in which every endpoint had ok=true has exited with
\* code 1 after its write failed, and the failure was reported.
C19_Witness ==
  \E p \in Procs :
    /\ pc[p] = "exited" /\ exitCode[p] = 1
    /\ unhandled[p] = "writeFileSync"
    /\ reported[p] # "none"
    /\ FailCount(results[p]) = 0

\* C20: every write of the log replaces it by the last min(200, n) entries
\* of (the log as it was persisted before, followed by the run's results):
\* the entries that survive are unchanged and in the same order.  A file
\* that held no array counts as the empty log.
C20_OldEntriesKeptInOrder ==
  [][\A p \in Procs :
       pc[p] = "writeLog" /\ pc'[p] = "tally" =>
         LET before == IF file.kind = "array" THEN file.entries ELSE <<>>
         IN file' = ArrayFile(SliceLast(before \o results[p], MAX_LOG_ENTRIES))]_vars

\* C20 witness: a run has written a log in which the entries 2..198 of the
\* log it read are the entries 1..197, followed by its three results.
C20_Witness ==
  \E p \in Procs :
    /\ LastSaved(p)
    /\ Len(Snapshot(p)) = MAX_LOG_ENTRIES - 2
    /\ SubSeq(file.entries, 1, MAX_LOG_ENTRIES - 3)
         = SubSeq(Snapshot(p), 2, MAX_LOG_ENTRIES - 2)
    /\ SubSeq(file.entries, MAX_LOG_ENTRIES - 2, MAX_LOG_ENTRIES) = results[p]

\* When checkEndpoint call k of run p returned: the start of the next call,
\* or the present while the loop of main has not moved on.
ReturnedAt(p, k) ==
  IF k < Len(results[p]) THEN results[p][k + 1].timestamp ELSE now

\* The probe timed out: its timer fired and aborted the request.
TimedOut(p, k) == timers[p][k].timer = "fired"

Unhealthy(result) ==
  result.status # null /\ (~result.ok \/ ~result.contentTypeValid)

\* C22: a response that was received in full is never a failure, whatever
\* its status and content type: the result checkEndpoint returns for it has
\* error=null, the status of the response, for responseTimeMs the time until
\* the response headers arrived, responseSizeKB and extraMetric filled in, ok
\* exactly when the status is in 200..299, and contentTypeValid exactly when
\* the content-type header names an XML or SDMX media type.
C22_ReceivedResponseIsNoFailure ==
  [][\A p \in Procs :
       pc[p] = "text" /\ req[p].server.kind = "response" /\ pc'[p] = "loop" =>
         LET server == req[p].server
             r == results'[p][Len(results'[p])]
         IN /\ Len(results'[p]) = Len(results[p]) + 1
            /\ r.error = nullStr
            /\ r.status = server.status
            /\ r.responseTimeMs = server.ms
            /\ r.responseSizeKB # null /\ r.responseSizeKB >= 0
            /\ r.extraMetric.value # null
            /\ r.ok <=> (server.status >= 200 /\ server.status <= 299)
            /\ r.contentTypeValid <=> server.contentType \in {ApplicationXml, SdmxJson}
            /\ Unhealthy(r) <=> ~r.ok \/ ~r.contentTypeValid
    ]_vars

\* C22 witness: one run has the result of a 404 served as XML (ok=false,
\* contentTypeValid=true), another those of a gateway's page served with
\* status 200 and of a response without content-type header (ok=true,
\* contentTypeValid=false); each has error=null and a response time.
C22_Witness ==
  \E p, q \in Procs :
    /\ Len(results[p]) >= 1 /\ Len(results[q]) >= 2
    /\ results[p][1].status = 404 /\ ~results[p][1].ok
    /\ results[p][1].contentTypeValid
    /\ results[q][1].status = 200 /\ results[q][1].ok
    /\ ~results[q][1].contentTypeValid
    /\ results[q][2].status = 200 /\ results[q][2].ok
    /\ ~results[q][2].contentTypeValid
    /\ \A r \in {results[p][1], results[q][1], results[q][2]} :
         /\ Unhealthy(r)
         /\ r.error = nullStr
         /\ r.responseTimeMs = 100
         /\ r.responseSizeKB # null
         /\ r.extraMetric.value # null

\* The snapshot with every entry turned into that of a 200 response, its
\* response time and everything else kept.
AsIfOk(snapshot) ==
  [j \in 1..Len(snapshot) |-> [snapshot[j] EXCEPT !.ok = TRUE, !.status = 200]]

\* The samples of the endpoint in the snapshot that have ok=false.
NotOkSampleIdx(name, snapshot) ==
  {j \in SampleIdx(name, snapshot) : ~snapshot[j].ok}

Calls(p, op) == Cardinality({k \in 1..Len(fileOps[p]) : fileOps[p][k] = op})

\* Run p has begun: it is past the start of main.
Begun(p) == pc[p] # "idle"

\* Run p has called checkEndpoint at least once.
Probing(p) == Len(timers[p]) > 0

\* In each run the log file is read at most once and then written at most
\* once, in this order; a run that completes has done both, and one that
\* has saved the log does nothing to the file afterwards.
OneReadThenOneWrite(p) ==
  /\ fileOps[p] \in {<<>>, <<"readFileSync">>, <<"readFileSync", "writeFileSync">>}
  /\ Calls(p, "readFileSync") <= 1 /\ Calls(p, "writeFileSync") <= 1
  /\ pc[p] = "exited" /\ unhandled[p] = "none" =>
       fileOps[p] = <<"readFileSync", "writeFileSync">>
  /\ Saved(p) => fileOps[p] = <<"readFileSync", "writeFileSync">>

\* C24 as stated: in each run the log file is read exactly once and written
\* exactly once (at most once if the run aborts), the read before the write,
\* the write at the end of the run, and the read at its start: a run that
\* has called checkEndpoint has read the log.
C24_ReadAtStartWrittenAtEnd ==
  \A p \in Procs :
    /\ OneReadThenOneWrite(p)
    /\ Probing(p) => Calls(p, "readFileSync") = 1

\* C24 amended: in each run the log file is read exactly once and written
\* exactly once (at most once each if the run aborts), the read before the
\* write and the write at the end of the run; the read comes after the loop
\* over the endpoints, when every checkEndpoint call has returned, and
\* before the first verdict.
C24_ReadAfterProbesWrittenAtEnd ==
  \A p \in Procs :
    /\ OneReadThenOneWrite(p)
    /\ Calls(p, "readFileSync") = 1 <=> LeftLoop(p)
    /\ Calls(p, "readFileSync") = 1 =>
         Len(results[p]) = NumEndpoints /\ ~InFlight(p)
    /\ pc[p] = "annotate" =>
         /\ fileOps[p] = <<"readFileSync">>
         /\ \A k \in 1..Len(results[p]) : results[p][k].anomaly = NotDetected

\* C24 witness: a run has exited normally after one read and one write, and
\* a later run, all its probes back, has read the log and not yet written.
C24_Witness ==
  \E p, q \in Procs :
    /\ pc[p] = "exited" /\ unhandled[p] = "none"
    /\ fileOps[p] = <<"readFileSync", "writeFileSync">>
    /\ pc[q] = "annotate" /\ Len(results[q]) = NumEndpoints
    /\ fileOps[q] = <<"readFileSync">>

\* checkEndpoint call k of run p has returned.
Returned(p, k) == k <= Len(results[p])

\* C25: the controller of a probe is aborted at most once, and exactly once
\* when its timeout elapsed before a response: the request then rejects, the
\* probe returns the timeout result and no timer is left armed; when the
\* response arrived first (the probe reads the body, or has returned a
\* result that is not the timeout) the controller is never aborted.
C25_AbortFiresOnceOnTimeoutOnly ==
  \A p \in Procs : \A k \in 1..Len(timers[p]) :
    LET t == timers[p][k] IN
      /\ t.aborts \in {0, 1}
      /\ t.aborts = 1 <=> t.timer = "fired"
      /\ Returned(p, k) =>
           /\ t.timer # "pending"
           /\ t.aborts = 1 <=>
                results[p][k].error = "Request timed out after 15000ms"
           /\ t.aborts = 1 =>
                results[p][k].responseTimeMs = TIMEOUT_MS
           /\ results[p][k].status # null => t.aborts = 0
      /\ ~Returned(p, k) =>
           /\ pc[p] = "text" => t.timer = "cleared" /\ t.aborts = 0
           /\ t.aborts = 1 =>
                /\ pc[p] = "fetch" /\ now = req[p].t0 + TIMEOUT_MS
                /\ ENABLED FetchAbort(p)

\* C25 witness: in one run a probe timed out, with one abort and its timer
\* spent, and the next got its response first, with no abort and its timer
\* cleared; both have returned.
C25_Witness ==
  \E p \in Procs :
    /\ Len(results[p]) >= 2
    /\ timers[p][1] = [timer |-> "fired", aborts |-> 1]
    /\ results[p][1].error = "Request timed out after 15000ms"
    /\ timers[p][2] = [timer |-> "cleared", aborts |-> 0]
    /\ results[p][2].status = 200
    /\ results[p][2].timestamp = results[p][1].timestamp + TIMEOUT_MS

\* The timestamps of the entries are non-decreasing along the sequence.
TimeAscending(entries) ==
  \A j \in 1..(Len(entries) - 1) : entries[j].timestamp <= entries[j + 1].timestamp

\* C26: starting from an empty log (or none), after any sequence of runs,
\* one after the other, the persisted entries' timestamps are non-decreasing
\* along the sequence with the entries of the latest run last; within a run
\* the results are those of the registry's endpoints in registry order and
\* each is stamped later than the one before.
C26_PersistedLogTimeAscending ==
  /\ \A p \in Procs : \A k \in 1..Len(results[p]) :
       /\ results[p][k].endpoint = ENDPOINTS[k].name
       /\ k > 1 => results[p][k - 1].timestamp < results[p][k].timestamp
  /\ FreshStart =>
       \A p \in Procs :
         LastSaved(p) =>
           /\ TimeAscending(file.entries)
           /\ SliceLast(file.entries, NumEndpoints) = results[p]

\* C26 witness: two runs in a row from an empty log have persisted six
\* entries, those of the second run last and stamped after those of the
\* first.
C26_Witness ==
  /\ FreshStart
  /\ LastSaved(2)
  /\ Len(file.entries) = 2 * NumEndpoints
  /\ SubSeq(file.entries, 1, NumEndpoints) = results[1]
  /\ SubSeq(file.entries, NumEndpoints + 1, 2 * NumEndpoints) = results[2]
  /\ results[1][NumEndpoints].timestamp < results[2][1].timestamp
  /\ TimeAscending(file.entries)

\* The snapshot with the response time of the entries at the given indexes
\* replaced by ms.
WithTimesAt(snapshot, idx, ms) ==
  [j \in 1..Len(snapshot) |->
     IF j \in idx THEN [snapshot[j] EXCEPT !.responseTimeMs = ms] ELSE snapshot[j]]

\* The samples of the endpoint that are older than its window of 10.
OlderIdx(name, snapshot) ==
  SampleIdx(name, snapshot) \ WindowIdx(SampleIdx(name, snapshot))

\* C27: with n >= 5 samples of the endpoint in the snapshot, a detected
\* verdict's rollingAvgMs is the mean, rounded to the nearest integer, of the
\* last min(10, n) of them in log order: of all n while n < 10, of the 10
\* most recent otherwise; the samples older than those have no effect, the
\* verdict being the one the snapshot gives with their response times
\* replaced by 0 ms or by a minute.
C27_AverageOverLastWindowOnly ==
  \A p \in Procs :
    Judged(p) =>
      \A k \in 1..Len(results[p]) :
        LET r == results[p][k]
            idx == SampleIdx(r.endpoint, Snapshot(p))
            n == Cardinality(idx)
            w == WindowIdx(idx)
        IN /\ Cardinality(w) = Min(10, n)
           /\ \A j \in w : \A m \in idx \ w : m < j
           /\ n >= 5 /\ r.anomaly.detected =>
                r.anomaly.rollingAvgMs = Nearest(SumTimesAt(w, Snapshot(p)), Min(10, n))
           /\ \A ms \in {0, 60000} :
                r.anomaly =
                  DetectAnomaly(r.endpoint, r.responseTimeMs,
                                WithTimesAt(Snapshot(p), idx \ w, ms))

\* C27 witness: against thirteen samples, the three oldest of 1000 ms and the
\* ten of the window of 100 ms, a 350 ms response is critical with a
\* baseline of 100 ms; against nine samples (80, 120 and seven of 100 ms) in
\* another behaviour the baseline is the mean of all nine.
C27_Witness ==
  \E p \in Procs :
    /\ Judged(p)
    /\ LET idx == SampleIdx("Structures", Snapshot(p)) IN
         /\ Cardinality(idx) = 13
         /\ \A j \in OlderIdx("Structures", Snapshot(p)) :
              Snapshot(p)[j].responseTimeMs = 1000
         /\ Cardinality(OlderIdx("Structures", Snapshot(p))) = 3
    /\ results[p][1].responseTimeMs = 350
    /\ results[p][1].anomaly =
         [detected |-> TRUE, rollingAvgMs |-> 100, deviationFactor |-> 350,
          severity |-> "critical"]

\* C28: when the rounded mean of the baseline window is 0 (every sample 0 ms,
\* or their mean below half a millisecond) the verdict is not-detected
\* whatever the current response time, and no verdict, in a run's results or
\* in the log file, is detected with rollingAvgMs = 0.
C28_ZeroBaselineNeverDetects ==
  /\ \A p \in Procs :
       Judged(p) =>
         \A k \in 1..Len(results[p]) :
           LET r == results[p][k]
               idx == SampleIdx(r.endpoint, Snapshot(p))
               w == WindowIdx(idx)
           IN /\ Cardinality(idx) >= 5 /\ 2 * SumTimesAt(w, Snapshot(p)) < Cardinality(w) =>
                   r.anomaly = NotDetected
              /\ r.anomaly.detected => r.anomaly.rollingAvgMs >= 1
  /\ file.kind = "array" =>
       \A j \in 1..Len(file.entries) :
         ~IsNullElem(file.entries[j]) /\ file.entries[j].anomaly.detected =>
           file.entries[j].anomaly.rollingAvgMs # 0

\* C28 witness: against six samples with a mean of 1/6 ms, which rounds to
\* 0, a response of 350 ms has the verdict not-detected.
C28_Witness ==
  \E p \in Procs :
    /\ Judged(p)
    /\ LET idx == SampleIdx("Structures", Snapshot(p)) IN
         /\ Cardinality(idx) = 6
         /\ SumTimesAt(idx, Snapshot(p)) = 1
    /\ Baseline("Structures", Snapshot(p)) = 0
    /\ results[p][1].responseTimeMs = 350
    /\ results[p][1].anomaly = NotDetected

\* A verdict as the log may hold it: {detected: false} and nothing else, or
\* detected with a severity, an integer baseline of at least 1 ms and a
\* factor (in hundredths) of at least 2.00, critical exactly from 3.00.
WellFormedVerdict(v) ==
  /\ "detected" \in DOMAIN v
  /\ v.detected \in BOOLEAN
  /\ ~v.detected => DOMAIN v = {"detected"}
  /\ v.detected =>
       /\ DOMAIN v = {"detected", "rollingAvgMs", "deviationFactor", "severity"}
       /\ v.severity \in {"warning", "critical"}
       /\ v.rollingAvgMs \in Nat /\ v.rollingAvgMs >= 1
       /\ v.deviationFactor \in Nat /\ v.deviationFactor >= 200
       /\ v.severity = "critical" <=> v.deviationFactor >= 300

\* C29: every verdict in the log file, and every verdict a run is about to
\* write, is well formed: not detected with no other member, or detected
\* with severity warning or critical, rollingAvgMs an integer >= 1 and
\* deviationFactor >= 2.0, the severity critical exactly when
\* deviationFactor >= 3.0.
C29_StoredVerdictsWellFormed ==
  /\ file.kind = "array" =>
       \A j \in 1..Len(file.entries) :
         ~IsNullElem(file.entries[j]) => WellFormedVerdict(file.entries[j].anomaly)
  /\ \A p \in Procs :
       Judged(p) =>
         \A k \in 1..Len(results[p]) : WellFormedVerdict(results[p][k].anomaly)

\* C29 witness: the log file, written by two runs, holds a critical verdict
\* of factor 3.00, a warning and verdicts that are not detected.
C29_Witness ==
  /\ file.kind = "array"
  /\ \A j \in 1..Len(file.entries) : ~IsNullElem(file.entries[j])
  /\ \E j \in 1..Len(file.entries) :
       /\ file.entries[j].anomaly.detected
       /\ file.entries[j].anomaly.severity = "warning"
  /\ \E j \in 1..Len(file.entries) :
       /\ file.entries[j].anomaly.detected
       /\ file.entries[j].anomaly.severity = "critical"
       /\ file.entries[j].anomaly.deviationFactor = 300
  /\ \E j \in 1..Len(file.entries) : file.entries[j].anomaly = NotDetected

\* The entries of the snapshot for the endpoint, in snapshot order.
OnlyOf(name, snapshot) == SelectSeq(snapshot, LAMBDA r : r.endpoint = name)

\* The entries of the snapshot for the other endpoints, in snapshot order.
NotOf(name, snapshot) == SelectSeq(snapshot, LAMBDA r : r.endpoint # name)

\* C30: the verdict for a result depends only on its responseTimeMs and on
\* the snapshot's entries for the same endpoint: it is the verdict the
\* snapshot gives with the other endpoints' entries removed, with those
\* entries moved in front of or behind the endpoint's own, and with the
\* other endpoints' response times replaced by a minute. (A snapshot with a
\* null element gives no verdict at all: the run ends in the TypeError.)
C30_VerdictIgnoresOtherEndpoints ==
  \A p \in Procs :
    Judged(p) =>
      \A k \in 1..Len(results[p]) :
        LET r == results[p][k]
            own == OnlyOf(r.endpoint, Snapshot(p))
            others == NotOf(r.endpoint, Snapshot(p))
            foreign == {j \in 1..Len(Snapshot(p)) : Snapshot(p)[j].endpoint # r.endpoint}
        IN /\ r.anomaly = DetectAnomaly(r.endpoint, r.responseTimeMs, own)
           /\ r.anomaly = DetectAnomaly(r.endpoint, r.responseTimeMs, others \o own)
           /\ r.anomaly = DetectAnomaly(r.endpoint, r.responseTimeMs, own \o others)
           /\ r.anomaly = DetectAnomaly(r.endpoint, r.responseTimeMs,
                                        WithTimesAt(Snapshot(p), foreign, 60000))

\* C30 witness: a snapshot interleaving the three endpoints holds five
\* samples of Structures, whose 300 ms response is judged critical, while
\* the 100 ms responses of the other two, each against its own samples, are
\* not detected.
C30_Witness ==
  \E p \in Procs :
    /\ Judged(p)
    /\ Len(OnlyOf("Structures", Snapshot(p))) = 5
    /\ Len(NotOf("Structures", Snapshot(p))) = 10
    /\ Snapshot(p)[2].endpoint # "Structures"
    /\ Snapshot(p)[4].endpoint = "Structures"
    /\ results[p][1].anomaly.detected
    /\ results[p][1].anomaly.severity = "critical"
    /\ results[p][2].anomaly = NotDetected
    /\ results[p][3].anomaly = NotDetected

\* Every endpoint of run p failed: no result has ok=true.
TotalOutage(p) ==
  Len(results[p]) = NumEndpoints /\ \A k \in 1..NumEndpoints : ~results[p][k].ok

\* C31: a run that raised no unhandled error has written the log before its
\* exit status is decided: while it is about to decide, and once it has
\* exited, it has called writeFileSync once and, no run having written
\* since, the file ends with all of its results; this holds for a run whose
\* every endpoint failed, which then exits with 1, and no run exits with 0
\* without having written the log.
C31_LogWrittenBeforeExitStatus ==
  \A p \in Procs :
    /\ pc[p] = "tally" =>
         /\ exitCode[p] = null
         /\ fileOps[p] = <<"readFileSync", "writeFileSync">>
    /\ exitCode[p] # null /\ unhandled[p] = "none" =>
         /\ fileOps[p] = <<"readFileSync", "writeFileSync">>
         /\ TotalOutage(p) => exitCode[p] = 1
         /\ LastSaved(p) =>
              /\ file.kind = "array"
              /\ SliceLast(file.entries, NumEndpoints) = results[p]
    /\ exitCode[p] = 0 =>
         /\ unhandled[p] = "none"
         /\ Calls(p, "writeFileSync") = 1
    /\ pc[p] \in {"idle", "loop", "fetch", "text", "annotate", "writeLog"} =>
         exitCode[p] = null

\* C31 witness: a run in which all three endpoints failed has exited with 1,
\* and the log file ends with its three failed results.
C31_Witness ==
  \E p \in Procs :
    /\ pc[p] = "exited" /\ unhandled[p] = "none"
    /\ TotalOutage(p)
    /\ exitCode[p] = 1
    /\ LastSaved(p)
    /\ SliceLast(file.entries, NumEndpoints) = results[p]
    /\ \A k \in 1..NumEndpoints : Failed(file.entries[Len(file.entries) - NumEndpoints + k])

\* The endpoint that follows name in the registry, the first after the last.
NextInRegistry(name) ==
  LET k == CHOOSE k \in 1..NumEndpoints : ENDPOINTS[k].name = name
  IN ENDPOINTS[(k % NumEndpoints) + 1].name

\* A log as runs that follow each other leave it when they start from an
\* empty or absent log: at most 200 entries, none null, the endpoints in
\* registry order round after round up to the last endpoint of the
\* registry, every entry with a response time.
LeftByRuns(entries) ==
  /\ Len(entries) <= MAX_LOG_ENTRIES
  /\ \A j \in 1..Len(entries) :
       /\ ~IsNullElem(entries[j])
       /\ entries[j].responseTimeMs # null
  /\ \A j \in 1..(Len(entries) - 1) :
       entries[j + 1].endpoint = NextInRegistry(entries[j].endpoint)
  /\ entries # <<>> => entries[Len(entries)].endpoint = ENDPOINTS[NumEndpoints].name

\* How many entries after position j are for the endpoint of entry j.
NewerOfSameEndpoint(entries, j) ==
  Cardinality({m \in (j + 1)..Len(entries) : entries[m].endpoint = entries[j].endpoint})

\* C33: when a run that read a log left by earlier runs (from an empty or
\* absent log on) has written, the file is again such a log, every entry the
\* trim evicted had at least 10 newer entries of its endpoint, and so for
\* every endpoint the baseline window (the last 10 samples) of the file is
\* that of the untrimmed log.
C33_EvictionSparesBaselineWindows ==
  \A p \in Procs :
    LastSaved(p) /\ LeftByRuns(Snapshot(p)) =>
      LET evicted == Len(log[p]) - Len(file.entries) IN
        /\ LeftByRuns(file.entries)
        /\ \A j \in 1..evicted : NewerOfSameEndpoint(log[p], j) >= ANOMALY_WINDOW
        /\ \A k \in 1..NumEndpoints :
             /\ History(ENDPOINTS[k].name, file.entries) = History(ENDPOINTS[k].name, log[p])
             /\ Len(log[p]) > MAX_LOG_ENTRIES =>
                  Len(History(ENDPOINTS[k].name, file.entries)) = ANOMALY_WINDOW

\* C33 witness: after 66 rounds the log holds 198 entries; the next run
\* evicts one entry and the run after it three, one of each endpoint, and
\* the file of 200 entries still has the ten latest samples of every
\* endpoint.
C33_Witness ==
  /\ LastSaved(2)
  /\ LeftByRuns(Snapshot(1)) /\ Len(Snapshot(1)) = MAX_LOG_ENTRIES - 2
  /\ LeftByRuns(Snapshot(2)) /\ Len(Snapshot(2)) = MAX_LOG_ENTRIES
  /\ Len(log[2]) - Len(file.entries) = NumEndpoints
  /\ {log[2][j].endpoint : j \in 1..NumEndpoints} =
       {ENDPOINTS[k].name : k \in 1..NumEndpoints}
  /\ Len(file.entries) = MAX_LOG_ENTRIES
  /\ \A k \in 1..NumEndpoints :
       History(ENDPOINTS[k].name, file.entries) = History(ENDPOINTS[k].name, log[2])

\* The position in the journal of run p's call of op, 0 if it made none.
CalledAt(p, op) ==
  LET at == {j \in 1..Len(journal) : journal[j] = [run |-> p, op |-> op]}
  IN IF at = {} THEN 0 ELSE CHOOSE j \in at : TRUE

ReadAt(p) == CalledAt(p, "readFileSync")

WroteAt(p) == CalledAt(p, "writeFileSync")

\* The runs that have written the log file.
SavedRuns == {p \in Procs : Saved(p)}

\* Runs p and q, both having written, overlap between read and write: each
\* read the log before the other wrote it.
Overlap(p, q) ==
  /\ p # q /\ Saved(p) /\ Saved(q)
  /\ ReadAt(p) < WroteAt(q)
  /\ ReadAt(q) < WroteAt(p)

\* The run whose write was the last before run p read the log, 0 if no run
\* had written.
Source(p) ==
  LET before == {q \in SavedRuns : WroteAt(q) < ReadAt(p)}
  IN IF before = {} THEN 0
     ELSE CHOOSE q \in before : \A r \in before : WroteAt(r) <= WroteAt(q)

\* The runs whose results the log of run p holds: p, the run whose file it
\* read, the run whose file that one read, and so on.
RECURSIVE Chain(_)
Chain(p) == IF Source(p) = 0 THEN {p} ELSE {p} \cup Chain(Source(p))

\* Run w is the one that wrote the log file last.
LastWriter(w) ==
  Saved(w) /\ \A q \in SavedRuns : WroteAt(q) <= WroteAt(w)

\* What the log file held before any run wrote it, as the first run to read
\* it got it.
InitialEntries == IF journal = <<>> THEN <<>> ELSE Snapshot(journal[1].run)

\* C32: nothing excludes one run from the log file while another is between
\* its read and its write. No write having torn the file, every run reads
\* what the last writer before it left (or the initial log), and the file
\* is what its last writer read followed by that run's results: it holds the
\* results of the last writer and of the chain of runs it read from, three
\* entries each, and of no other. A run that overlaps with the last writer
\* between read and write is not in that chain: its results are lost. The
\* results of every run that has written are in the file exactly when no two
\* of these runs overlap.
C32_OverlappingRunsLoseUpdates ==
  (\A q \in Procs : ~Torn(q)) =>
    /\ \A p \in Procs :
         readKind[p] # "none" =>
           Snapshot(p) = IF Source(p) = 0 THEN InitialEntries ELSE log[Source(p)]
    /\ \A w \in Procs :
         LastWriter(w) =>
           /\ file = ArrayFile(Snapshot(w) \o results[w])
           /\ Len(file.entries) =
                Len(InitialEntries) + NumEndpoints * Cardinality(Chain(w))
           /\ \A q \in Procs :
                Overlap(w, q) =>
                  /\ q \notin Chain(w)
                  /\ Len(file.entries) <
                       Len(InitialEntries) + NumEndpoints * Cardinality(SavedRuns)
           /\ Chain(w) = SavedRuns <=>
                \A p, q \in SavedRuns : ~Overlap(p, q)

\* C32 witness: two runs have both read the five rounds of the log before
\* either wrote; both have written and exited with 0, and the file holds the
\* five rounds and the three results of the run that wrote last only: 18
\* entries, not 21.
C32_Witness ==
  \E w, q \in Procs :
    /\ Overlap(w, q) /\ LastWriter(w)
    /\ pc[w] = "exited" /\ exitCode[w] = 0
    /\ pc[q] = "exited" /\ exitCode[q] = 0
    /\ Snapshot(w) = Rounds(5) /\ Snapshot(q) = Rounds(5)
    /\ file.entries = Rounds(5) \o results[w]
    /\ Len(file.entries) = 18
    /\ Chain(w) = {w}

====
